---------------------------- MODULE Spec2Model ----------------------------
(***************************************************************************)
(* A model of pcd_py_ex/projection_template.py: the one-shot pipeline that *)
(* selects points of a cloud by index.txt, projects them with a pinhole    *)
(* camera, draws them on image.png and reduces them to an outlier-filtered *)
(* bounding box.                                                           *)
(*                                                                         *)
(* Numbers.  Coordinates and intrinsics are integers; a projected pixel is *)
(* the exact rational pair (xn/d, yn/d) with d > 0.  Angles are multiples  *)
(* of 90 degrees, for which sine and cosine are -1, 0 or 1, so every       *)
(* matrix is an integer matrix.  All arithmetic is that of the reals: the  *)
(* rounding of IEEE doubles (np.cos(np.deg2rad(90)) is 6.1e-17, not 0) is  *)
(* not part of the model.                                                  *)
(***************************************************************************)
EXTENDS Integers, Sequences, FiniteSets, TLC

VARIABLES
    pc,              \* the statement of main() that runs next
    err,             \* the exception that ended the run, "none" while it runs
    cloud,           \* point_cloud.pcd: the sequence of its points
    indexLines,      \* index.txt: the sequence of its lines, each a sequence of characters
    cfg,             \* the intrinsics and the three angles of main()
    points_3d,       \* main()'s points_3d
    rotation_matrix, \* main()'s rotation_matrix
    rvec,            \* main()'s rvec
    points_2d,       \* main()'s points_2d
    img,             \* main()'s img
    img_box,         \* main()'s img_box
    filtered_points, \* main()'s filtered_points
    box,             \* the rectangle main() draws, if it draws one
    fs               \* the files: path -> content

vars == <<pc, err, cloud, indexLines, cfg, points_3d, rotation_matrix, rvec,
          points_2d, img, img_box, filtered_points, box, fs>>

----------------------------------------------------------------------------
(* Bounds of the model *)

\* the longest index.txt of the pipeline runs
MaxLines == 4
\* the longest index.txt of the selector runs
MaxSelLines == 3
\* the most 2D points given to the box reducer on its own
MaxPts == 6
\* the most 3D points given to the projector on its own
MaxProj == 1

----------------------------------------------------------------------------
(* Sequences and integers *)

Abs(a) == IF a < 0 THEN -a ELSE a

\* Python's int() of a float: truncation toward zero; the float is a / d, d > 0
Trunc(a, d) == IF a >= 0 THEN a \div d ELSE -((-a) \div d)

RECURSIVE Gcd(_, _)
Gcd(a, b) == IF b = 0 THEN a ELSE Gcd(b, a % b)

Lcm(a, b) == (a \div Gcd(a, b)) * b

RECURSIVE SeqSum(_)
SeqSum(s) == IF s = <<>> THEN 0 ELSE Head(s) + SeqSum(Tail(s))

RECURSIVE SeqLcm(_)
SeqLcm(s) == IF s = <<>> THEN 1 ELSE Lcm(Head(s), SeqLcm(Tail(s)))

RECURSIVE SeqMin(_)
SeqMin(s) == IF Len(s) = 1 THEN s[1]
             ELSE LET m == SeqMin(Tail(s)) IN IF s[1] < m THEN s[1] ELSE m

RECURSIVE SeqMax(_)
SeqMax(s) == IF Len(s) = 1 THEN s[1]
             ELSE LET m == SeqMax(Tail(s)) IN IF s[1] > m THEN s[1] ELSE m

\* the sequences over S of length at most n
SeqsUpTo(S, n) == UNION {[1..k -> S] : k \in 0..n}

----------------------------------------------------------------------------
(* index.txt: str.strip() and int() *)

Whitespace == {" ", "\t", "\n"}
Digits == <<"0", "1", "2", "3", "4", "5", "6", "7", "8", "9">>
DigitSet == {Digits[i] : i \in 1..10}
DigitVal(c) == (CHOOSE i \in 1..10 : Digits[i] = c) - 1

RECURSIVE LStrip(_)
LStrip(s) == IF s # <<>> /\ Head(s) \in Whitespace THEN LStrip(Tail(s)) ELSE s

RECURSIVE RStrip(_)
RStrip(s) == IF s # <<>> /\ s[Len(s)] \in Whitespace
             THEN RStrip(SubSeq(s, 1, Len(s) - 1)) ELSE s

\* line.strip()
Strip(s) == RStrip(LStrip(s))

RECURSIVE DigitsVal(_)
DigitsVal(s) == IF s = <<>> THEN 0
                ELSE 10 * DigitsVal(SubSeq(s, 1, Len(s) - 1)) + DigitVal(s[Len(s)])

IsDigits(s) == s # <<>> /\ \A i \in 1..Len(s) : s[i] \in DigitSet

\* whether int(s) returns, for a stripped s: an optional sign, then digits
IntParses(s) == \/ IsDigits(s)
                \/ s # <<>> /\ Head(s) \in {"-", "+"} /\ IsDigits(Tail(s))

\* int(s), where it returns
IntOf(s) == IF Head(s) = "-" THEN -DigitsVal(Tail(s))
            ELSE IF Head(s) = "+" THEN DigitsVal(Tail(s))
            ELSE DigitsVal(s)

\* the lines of the file that are not blank once stripped, in order
RECURSIVE NonBlank(_)
NonBlank(lines) ==
    IF lines = <<>> THEN <<>>
    ELSE LET line == Strip(Head(lines))
         IN  IF line # <<>> THEN <<line>> \o NonBlank(Tail(lines))
             ELSE NonBlank(Tail(lines))

----------------------------------------------------------------------------
(* read_selected_points *)

\* numpy's points[indices] for a list of integers: an index in -N..-1 counts
\* from the end, one outside -N..N-1 raises IndexError
IndexInRange(i, n) == -n <= i /\ i < n
TakeIndex(points, i) == IF i < 0 THEN points[Len(points) + i + 1] ELSE points[i + 1]
\* a faulty variant: the indices pass through a set first, which drops the
\* repeats (it is used to show that C1 tells the two apart)
RECURSIVE Unique(_)
Unique(s) == IF s = <<>> THEN <<>>
             ELSE LET u == Unique(SubSeq(s, 1, Len(s) - 1))
                  IN  IF \E k \in 1..Len(u) : u[k] = s[Len(s)] THEN u ELSE Append(u, s[Len(s)])
FancyIndexOfSet(points, indices) ==
    [k \in 1..Len(Unique(indices)) |-> TakeIndex(points, Unique(indices)[k])]
FancyIndex(points, indices) == [k \in 1..Len(indices) |-> TakeIndex(points, indices[k])]

\* the list `indices` the loop builds, where every int() returns
ParseIndices(lines) == LET nb == NonBlank(lines) IN [k \in 1..Len(nb) |-> IntOf(nb[k])]

\* pcdOk: whether o3d.io.read_point_cloud could read the file (it returns an
\* empty cloud, and raises nothing, when it could not); idxOk: whether open()
\* of index.txt succeeds.  The result is the array returned, or the exception.
read_selected_points(pcd, pcdOk, lines, idxOk) ==
    LET points == IF pcdOk THEN pcd ELSE <<>>
        nb == NonBlank(lines)
    IN  IF ~idxOk THEN [err |-> "OSError", points |-> <<>>]
        ELSE IF \E k \in 1..Len(nb) : ~IntParses(nb[k])
             THEN [err |-> "ValueError", points |-> <<>>]
        ELSE IF \E k \in 1..Len(nb) : ~IndexInRange(IntOf(nb[k]), Len(points))
             THEN [err |-> "IndexError", points |-> <<>>]
        ELSE [err |-> "none", points |-> FancyIndex(points, ParseIndices(lines))]

----------------------------------------------------------------------------
(* make_rot_z, make_rot_y, make_rot_x and their product *)

\* np.cos(np.deg2rad(angle)) and np.sin(np.deg2rad(angle)) for a multiple of 90
CosDeg(angle) == CASE angle % 360 = 0   -> 1
                   [] angle % 360 = 90  -> 0
                   [] angle % 360 = 180 -> -1
                   [] angle % 360 = 270 -> 0

SinDeg(angle) == CASE angle % 360 = 0   -> 0
                   [] angle % 360 = 90  -> 1
                   [] angle % 360 = 180 -> 0
                   [] angle % 360 = 270 -> -1

make_rot_z(angle) ==
    LET cost == CosDeg(angle)
        sint == SinDeg(angle)
    IN  << <<cost, -sint, 0>>,
           <<sint, cost, 0>>,
           <<0, 0, 1>> >>

\* a faulty variant: the sine keeps its sign in the third row, which makes
\* the matrix a reflection (it is used to show that C8 tells the two apart)
make_rot_y_same_sign(angle) ==
    LET cost == CosDeg(angle)
        sint == SinDeg(angle)
    IN  << <<cost, 0, sint>>,
           <<0, 1, 0>>,
           <<sint, 0, cost>> >>

make_rot_y(angle) ==
    LET cost == CosDeg(angle)
        sint == SinDeg(angle)
    IN  << <<cost, 0, sint>>,
           <<0, 1, 0>>,
           <<-sint, 0, cost>> >>

make_rot_x(angle) ==
    LET cost == CosDeg(angle)
        sint == SinDeg(angle)
    IN  << <<1, 0, 0>>,
           <<0, cost, -sint>>,
           <<0, sint, cost>> >>

Identity3 == << <<1, 0, 0>>, <<0, 1, 0>>, <<0, 0, 1>> >>

\* numpy's A @ B, A.T and A @ p for 3x3 matrices and 3-vectors
MatMul(A, B) == [i \in 1..3 |-> [j \in 1..3 |->
                    A[i][1] * B[1][j] + A[i][2] * B[2][j] + A[i][3] * B[3][j]]]
Transpose(A) == [i \in 1..3 |-> [j \in 1..3 |-> A[j][i]]]
MatVec(A, p) == [i \in 1..3 |-> A[i][1] * p[1] + A[i][2] * p[2] + A[i][3] * p[3]]

Det3(A) == A[1][1] * (A[2][2] * A[3][3] - A[2][3] * A[3][2])
         - A[1][2] * (A[2][1] * A[3][3] - A[2][3] * A[3][1])
         + A[1][3] * (A[2][1] * A[3][2] - A[2][2] * A[3][1])

\* main()'s rotation_matrix
ExtrinsicRotation(alpha, beta, gamma) ==
    MatMul(MatMul(make_rot_z(-gamma), make_rot_y(-beta)), make_rot_x(-alpha))

----------------------------------------------------------------------------
(* cv2.Rodrigues, and its inverse inside cv2.projectPoints                 *)
(*                                                                         *)
(* A rotation vector is theta * n, n a unit vector.  It is kept as theta   *)
(* in degrees and dir, the smallest integer vector along n; the rotations  *)
(* the angles of this model compose have theta in {0, 90, 120, 180} and    *)
(* dir in {-1, 0, 1}^3.                                                    *)

Skew(v) == << <<0, -v[3], v[2]>>,
              <<v[3], 0, -v[1]>>,
              <<-v[2], v[1], 0>> >>

Outer(v) == [i \in 1..3 |-> [j \in 1..3 |-> v[i] * v[j]]]

Sign(a) == IF a > 0 THEN 1 ELSE IF a < 0 THEN -1 ELSE 0

\* matrix to vector: r = (R32 - R23, R13 - R31, R21 - R12) = 2 sin(theta) n and
\* trace(R) = 1 + 2 cos(theta); where sin(theta) = 0 and cos(theta) < 0 the
\* axis is read off the diagonal, n_i^2 = (R_ii + 1) / 2, with OpenCV's signs
Rodrigues(R) ==
    LET r == <<R[3][2] - R[2][3], R[1][3] - R[3][1], R[2][1] - R[1][2]>>
        trace == R[1][1] + R[2][2] + R[3][3]
        rx == IF R[1][1] + 1 > 0 THEN 1 ELSE 0
        ry == IF R[2][2] + 1 > 0 THEN (IF R[1][2] < 0 THEN -1 ELSE 1) ELSE 0
        rz == IF R[3][3] + 1 > 0 THEN (IF R[1][3] < 0 THEN -1 ELSE 1) ELSE 0
        flip == rx = 0 /\ ry # 0 /\ rz # 0 /\ ((R[2][3] > 0) # (ry * rz > 0))
    IN  IF r = <<0, 0, 0>>
        THEN IF trace > 1
             THEN [theta |-> 0, dir |-> <<0, 0, 0>>]
             ELSE [theta |-> 180, dir |-> <<rx, ry, IF flip THEN -rz ELSE rz>>]
        ELSE [theta |-> IF trace = 1 THEN 90 ELSE 120,
              dir |-> <<Sign(r[1]), Sign(r[2]), Sign(r[3])>>]

\* a faulty variant: the cross-product term has the opposite sign, which
\* gives the inverse rotation (it is used to show that C3 tells the two apart)
RodriguesInvOpposite(rv) ==
    LET v == rv.dir
        m == v[1] * v[1] + v[2] * v[2] + v[3] * v[3]
        a == CASE rv.theta = 90 -> 0 [] rv.theta = 120 -> -1 [] OTHER -> -2
        b == CASE rv.theta = 90 -> 2 [] rv.theta = 120 -> 1 [] OTHER -> 4 \div m
        k == CASE rv.theta = 90 -> 2 [] rv.theta = 120 -> 1 [] OTHER -> 0
    IN  IF rv.theta = 0 THEN Identity3
        ELSE [i \in 1..3 |-> [j \in 1..3 |->
                 (a * Identity3[i][j] + b * Outer(v)[i][j] - k * Skew(v)[i][j]) \div 2]]

\* vector to matrix: R = cos(theta) I + (1 - cos(theta)) n n^T + sin(theta) [n]x
\* with n = dir / |dir|; twice R is a I + b dir dir^T + k [dir]x
RodriguesInv(rv) ==
    LET v == rv.dir
        m == v[1] * v[1] + v[2] * v[2] + v[3] * v[3]
        a == CASE rv.theta = 90 -> 0 [] rv.theta = 120 -> -1 [] OTHER -> -2
        b == CASE rv.theta = 90 -> 2 [] rv.theta = 120 -> 1 [] OTHER -> 4 \div m
        k == CASE rv.theta = 90 -> 2 [] rv.theta = 120 -> 1 [] OTHER -> 0
    IN  IF rv.theta = 0 THEN Identity3
        ELSE [i \in 1..3 |-> [j \in 1..3 |->
                 (a * Identity3[i][j] + b * Outer(v)[i][j] + k * Skew(v)[i][j]) \div 2]]

----------------------------------------------------------------------------
(* cv2.projectPoints with no distortion *)

\* a faulty variant: no division by Z (it is used to show that C2 tells the
\* two apart)
ProjectPointUndivided(p, rv, tvec, K) ==
    LET q == MatVec(RodriguesInv(rv), p)
    IN  [xn |-> K[1][1] * (q[1] + tvec[1]) + K[1][3],
         yn |-> K[2][2] * (q[2] + tvec[2]) + K[2][3],
         d  |-> 1]

\* one point: (X, Y, Z) = R p + t, then x = fx X / Z + cx, y = fy Y / Z + cy;
\* OpenCV divides by 1 where Z is 0.  The pixel is (xn / d, yn / d), d > 0.
ProjectPoint(p, rv, tvec, K) ==
    LET q == MatVec(RodriguesInv(rv), p)
        X == q[1] + tvec[1]
        Y == q[2] + tvec[2]
        Z == q[3] + tvec[3]
        z == IF Z = 0 THEN 1 ELSE Z
        s == IF z < 0 THEN -1 ELSE 1
    IN  [xn |-> s * (K[1][1] * X + K[1][3] * z),
         yn |-> s * (K[2][2] * Y + K[2][3] * z),
         d  |-> s * z]

projectPoints(points, rv, tvec, K) ==
    [i \in 1..Len(points) |-> ProjectPoint(points[i], rv, tvec, K)]

\* main()'s intrinsic_matrix and tvec
IntrinsicMatrix(c) == << <<c.fx, 0, c.cx>>, <<0, c.fy, c.cy>>, <<0, 0, 1>> >>
ZeroTvec == <<0, 0, 0>>

----------------------------------------------------------------------------
(* The outlier filter and the bounding box *)

\* threshold
Threshold == 2
\* the 1e-6 added to each standard deviation, as 1 / EpsDen
EpsDen == 1000000

\* Every coordinate of the array over one denominator L: column `axis` of
\* points_2d_array is Column(pts, axis, L)[i] / L.
CommonDen(pts) == SeqLcm([i \in 1..Len(pts) |-> pts[i].d])
Column(pts, axis, L) ==
    [i \in 1..Len(pts) |-> (IF axis = "x" THEN pts[i].xn ELSE pts[i].yn) * (L \div pts[i].d)]

\* For a column s / L of n values: np.mean is SeqSum(s) / (n L), np.std (the
\* population standard deviation) is sqrt(Spread(s)) / (n L), and
\* |s[i] / L - mean| is Deviation(s, i) / (n L).
Spread(s) == Len(s) * SeqSum([i \in 1..Len(s) |-> s[i] * s[i]]) - SeqSum(s) * SeqSum(s)
Deviation(s, i) == Abs(Len(s) * s[i] - SeqSum(s))

\* |value - mean| / (std + 1e-6) < threshold, with |value - mean| = D / nL and
\* std = sqrt(V) / nL:  D < T sqrt(V) + T nL / E.  With G = D^2 - T^2 V this
\* holds if D = 0 or G <= 0, and otherwise iff G E^2 < 2 D T nL E - (T nL)^2,
\* which for (T nL)^2 < E is G <= (2 D T nL - 1) div E.
\* a faulty variant: nothing is added to the standard deviation, so a zero
\* deviation gives 0 / 0, which is below no threshold (it is used to show
\* that C10 tells the two apart)
ZScoreWithoutEpsilon(D, V, nL) == V > 0 /\ D * D < Threshold * Threshold * V

ZScoreBelowThreshold(D, V, nL) ==
    LET G == D * D - Threshold * Threshold * V
    IN  \/ D = 0
        \/ G <= 0
        \/ G <= (2 * D * Threshold * nL - 1) \div EpsDen

\* z_scores_x < threshold, for every row
AxisMask(pts, axis) ==
    LET L == CommonDen(pts)
        s == Column(pts, axis, L)
        V == Spread(s)
    IN  [i \in 1..Len(pts) |-> ZScoreBelowThreshold(Deviation(s, i), V, Len(s) * L)]

\* a faulty variant: | for & (it is used to show that C4 tells the two apart)
OutlierMaskEither(pts) ==
    LET mx == AxisMask(pts, "x")
        my == AxisMask(pts, "y")
    IN  [i \in 1..Len(pts) |-> mx[i] \/ my[i]]

\* mask
OutlierMask(pts) ==
    LET mx == AxisMask(pts, "x")
        my == AxisMask(pts, "y")
    IN  [i \in 1..Len(pts) |-> mx[i] /\ my[i]]

\* points_2d_array[mask]
RECURSIVE Compress(_, _)
Compress(pts, mask) ==
    IF pts = <<>> THEN <<>>
    ELSE IF Head(mask) THEN <<Head(pts)>> \o Compress(Tail(pts), Tail(mask))
    ELSE Compress(Tail(pts), Tail(mask))

FilterOutliers(pts) == Compress(pts, OutlierMask(pts))

NoBox == [present |-> FALSE, min_x |-> 0, min_y |-> 0, max_x |-> 0, max_y |-> 0]

\* int(np.min(...)), int(np.max(...)) of each column of the filtered points
BoundingBox(fpts) ==
    IF Len(fpts) > 0
    THEN LET L == CommonDen(fpts)
             xs == Column(fpts, "x", L)
             ys == Column(fpts, "y", L)
         IN  [present |-> TRUE,
              min_x |-> Trunc(SeqMin(xs), L), min_y |-> Trunc(SeqMin(ys), L),
              max_x |-> Trunc(SeqMax(xs), L), max_y |-> Trunc(SeqMax(ys), L)]
    ELSE NoBox

----------------------------------------------------------------------------
(* Images and files *)

\* cv2.imread's None; also a path that holds no file
NoImg == [ok |-> FALSE, base |-> "", circles |-> <<>>, rects |-> <<>>]
\* the scene image as image.png holds it
SourceImg == [ok |-> TRUE, base |-> "scene", circles |-> <<>>, rects |-> <<>>]

img_path == "image.png"
results_path == "results.png"
results_box_path == "results_box.png"

\* cv2.imread: a fresh buffer holding the file's content, or None
imread(files, path, ok) == IF ok THEN files[path] ELSE NoImg

\* cv2.imwrite on an image that is not None: the file is replaced when the
\* write succeeds, and left as it was when it fails; the call returns False
\* then, and raises nothing
imwrite(files, path, image, ok) == IF ok THEN [files EXCEPT ![path] = image] ELSE files

\* cv2.circle(img, (x, y), 5, (0, 0, 255), 2) for every projected point
Circle(p) == [x |-> Trunc(p.xn, p.d), y |-> Trunc(p.yn, p.d)]
DrawCircles(image, pts) ==
    [image EXCEPT !.circles = @ \o [i \in 1..Len(pts) |-> Circle(pts[i])]]

\* cv2.rectangle(img_box, (min_x, min_y), (max_x, max_y), (0, 0, 255), 2)
DrawRectangle(image, b) == [image EXCEPT !.rects = Append(@, b)]

----------------------------------------------------------------------------
(* Inputs *)

\* The configuration of the specification's end-to-end scenario.
ScenarioCfg == [fx |-> 500, fy |-> 500, cx |-> 250, cy |-> 250,
                alpha |-> 0, beta |-> 0, gamma |-> 0]
\* The configuration main() spells out: its angles, and its intrinsics to the
\* nearest whole pixel.
CodedCfg == [fx |-> 480, fy |-> 482, cx |-> 325, cy |-> 176,
             alpha |-> -90, beta |-> 90, gamma |-> 0]

\* The scenario's cloud, and a cloud in view of the coded camera (which looks
\* along the cloud's x axis): in front of it, on its plane Z = 0, behind it.
ScenarioCloud == << <<0, 0, 10>>, <<1, 0, 10>>, <<0, 1, 10>>, <<-1, -1, 10>> >>
CodedCloud == << <<2, 0, 0>>, <<4, 1, 1>>, <<0, 1, 0>>, <<-2, 1, 3>> >>
FiveCloud == << <<1, 2, 3>>, <<4, 5, 6>>, <<7, 8, 9>>, <<1, 2, 3>>, <<0, 0, 1>> >>

Runs == {[cloud |-> ScenarioCloud, cfg |-> ScenarioCfg],
         [cloud |-> CodedCloud, cfg |-> CodedCfg]}

\* lines of index.txt, without their line ends
PipelineLineSet == {<<>>, <<"0">>, <<"1">>, <<"2">>, <<"3">>, <<"4">>, <<"-", "1">>}
SelectorLineSet == PipelineLineSet \cup
    {<<" ">>, <<" ", "2", "\t">>, <<"+", "1">>, <<"-", "5">>, <<"-", "9">>,
     <<"1", "0", "0">>, <<"x">>}
SelectorClouds == {<<>>, << <<7, 7, 7>> >>, ScenarioCloud, FiveCloud}

Angles == {-90, 0, 90, 180}
ProjectorCfgs == {[fx |-> k[1], fy |-> k[2], cx |-> k[3], cy |-> k[4],
                   alpha |-> a, beta |-> b, gamma |-> g] :
                  k \in {<<500, 500, 250, 250>>, <<480, 482, 325, 176>>},
                  a \in Angles, b \in Angles, g \in Angles}
ProjectorPoints == {<<0, 0, 10>>, <<0, 0, 1>>, <<1, 0, 10>>, <<-1, -1, 10>>,
                    <<2, 0, 0>>, <<4, 1, 1>>, <<-2, 1, 3>>, <<3, -2, -4>>}

Pixel(x, y) == [xn |-> x, yn |-> y, d |-> 1]
ReducerPoints == {Pixel(0, 0), Pixel(1, 0), Pixel(0, 7), Pixel(12, 0),
                  [xn |-> -3, yn |-> 1, d |-> 2]}

InitFiles == [path \in {img_path, results_path, results_box_path} |->
                 IF path = img_path THEN SourceImg ELSE NoImg]

NoRvec == [theta |-> 0, dir |-> <<0, 0, 0>>]

\* what main() has computed, drawn and written before its first statement
Fresh ==
    /\ err = "none"
    /\ rotation_matrix = <<>>
    /\ rvec = NoRvec
    /\ points_2d = <<>>
    /\ img = NoImg
    /\ img_box = NoImg
    /\ filtered_points = <<>>
    /\ box = NoBox
    /\ fs = InitFiles

Init ==
    /\ Fresh
    /\ pc = "select"
    /\ points_3d = <<>>
    /\ \E r \in Runs : cloud = r.cloud /\ cfg = r.cfg
    /\ indexLines \in SeqsUpTo(PipelineLineSet, MaxLines)

----------------------------------------------------------------------------
(* main(), statement by statement *)

\* an exception leaves main(): e is the builtin's name, or the cv2 call that
\* raised cv2.error
Raise(e) == pc' = "error" /\ err' = e

\* line 59
ReadSelectedPoints ==
    /\ pc = "select"
    /\ \E pcdOk \in BOOLEAN, idxOk \in BOOLEAN :
         LET res == read_selected_points(cloud, pcdOk, indexLines, idxOk)
         IN  IF res.err = "none"
             THEN points_3d' = res.points /\ pc' = "project" /\ err' = err
             ELSE points_3d' = points_3d /\ Raise(res.err)
    /\ UNCHANGED <<cloud, indexLines, cfg, rotation_matrix, rvec, points_2d,
                   img, img_box, filtered_points, box, fs>>

\* lines 62-84.  What cv2.projectPoints does with an array of no points is
\* the OpenCV build's: builds that project through the C API reject it with
\* cv2.error, others return an array of no pixels.
ProjectPoints ==
    /\ pc = "project"
    /\ rotation_matrix' = ExtrinsicRotation(cfg.alpha, cfg.beta, cfg.gamma)
    /\ rvec' = Rodrigues(rotation_matrix')
    /\ \E accepted \in (IF points_3d = <<>> THEN BOOLEAN ELSE {TRUE}) :
         IF accepted
         THEN /\ points_2d' = projectPoints(points_3d, rvec', ZeroTvec, IntrinsicMatrix(cfg))
              /\ pc' = "imread"
              /\ err' = err
         ELSE points_2d' = points_2d /\ Raise("projectPoints")
    /\ UNCHANGED <<cloud, indexLines, cfg, points_3d, img, img_box,
                   filtered_points, box, fs>>

\* line 87
ReadImage ==
    /\ pc = "imread"
    /\ \E ok \in BOOLEAN : img' = imread(fs, img_path, ok)
    /\ pc' = "dots"
    /\ UNCHANGED <<err, cloud, indexLines, cfg, points_3d, rotation_matrix, rvec,
                   points_2d, img_box, filtered_points, box, fs>>

\* lines 89-91: cv2.circle raises on None
DrawDots ==
    /\ pc = "dots"
    /\ IF points_2d # <<>> /\ ~img.ok
       THEN img' = img /\ Raise("circle")
       ELSE img' = DrawCircles(img, points_2d) /\ pc' = "imwrite" /\ err' = err
    /\ UNCHANGED <<cloud, indexLines, cfg, points_3d, rotation_matrix, rvec,
                   points_2d, img_box, filtered_points, box, fs>>

\* line 93: cv2.imwrite raises on None; its result is not looked at
WriteResults ==
    /\ pc = "imwrite"
    /\ IF ~img.ok
       THEN fs' = fs /\ Raise("imwrite")
       ELSE /\ \E ok \in BOOLEAN : fs' = imwrite(fs, results_path, img, ok)
            /\ pc' = "imread_box"
            /\ err' = err
    /\ UNCHANGED <<cloud, indexLines, cfg, points_3d, rotation_matrix, rvec,
                   points_2d, img, img_box, filtered_points, box>>

\* a faulty variant: the box is drawn on the buffer of the dots instead of
\* a second read (it is used to show that C9 tells the two apart)
ReadBoxImageShared ==
    /\ pc = "imread_box"
    /\ img_box' = img
    /\ pc' = "box"
    /\ UNCHANGED <<err, cloud, indexLines, cfg, points_3d, rotation_matrix, rvec,
                   points_2d, img, filtered_points, box, fs>>

\* line 96
ReadBoxImage ==
    /\ pc = "imread_box"
    /\ \E ok \in BOOLEAN : img_box' = imread(fs, img_path, ok)
    /\ pc' = "box"
    /\ UNCHANGED <<err, cloud, indexLines, cfg, points_3d, rotation_matrix, rvec,
                   points_2d, img, filtered_points, box, fs>>

\* lines 98-116: cv2.rectangle raises on None
ReduceToBox ==
    /\ pc = "box"
    /\ filtered_points' = FilterOutliers(points_2d)
    /\ IF Len(filtered_points') > 0
       THEN IF img_box.ok
            THEN /\ box' = BoundingBox(filtered_points')
                 /\ img_box' = DrawRectangle(img_box, box')
                 /\ pc' = "imwrite_box"
                 /\ err' = err
            ELSE box' = box /\ img_box' = img_box /\ Raise("rectangle")
       ELSE box' = box /\ img_box' = img_box /\ pc' = "imwrite_box" /\ err' = err
    /\ UNCHANGED <<cloud, indexLines, cfg, points_3d, rotation_matrix, rvec,
                   points_2d, img, fs>>

\* line 118
WriteBoxResults ==
    /\ pc = "imwrite_box"
    /\ IF ~img_box.ok
       THEN fs' = fs /\ Raise("imwrite")
       ELSE /\ \E ok \in BOOLEAN : fs' = imwrite(fs, results_box_path, img_box, ok)
            /\ pc' = "done"
            /\ err' = err
    /\ UNCHANGED <<cloud, indexLines, cfg, points_3d, rotation_matrix, rvec,
                   points_2d, img, img_box, filtered_points, box>>

Next ==
    \/ ReadSelectedPoints
    \/ ProjectPoints
    \/ ReadImage
    \/ DrawDots
    \/ WriteResults
    \/ ReadBoxImage
    \/ ReduceToBox
    \/ WriteBoxResults

\* the whole run
Spec == Init /\ [][Next]_vars

----------------------------------------------------------------------------
(* The components on their own, over inputs drawn from bounded sets *)

\* read_selected_points over clouds of 0, 1, 4 and 5 points
InitSelector ==
    /\ Fresh
    /\ pc = "select"
    /\ points_3d = <<>>
    /\ cloud \in SelectorClouds
    /\ cfg = CodedCfg
    /\ indexLines \in SeqsUpTo(SelectorLineSet, MaxSelLines)

SpecSelector == InitSelector /\ [][ReadSelectedPoints]_vars

\* the rotation and the projection, from line 62 on, over every triple of angles
InitProjector ==
    /\ Fresh
    /\ pc = "project"
    /\ cloud = <<>>
    /\ indexLines = <<>>
    /\ cfg \in ProjectorCfgs
    /\ points_3d \in SeqsUpTo(ProjectorPoints, MaxProj)

SpecProjector == InitProjector /\ [][ProjectPoints]_vars

\* the box reducer, from line 98 on, over arrays of pixels; the dots image is
\* drawn and written, the box image is read
InitReducer ==
    /\ pc = "box"
    /\ err = "none"
    /\ cloud = <<>>
    /\ indexLines = <<>>
    /\ cfg = CodedCfg
    /\ points_3d = <<>>
    /\ rotation_matrix = ExtrinsicRotation(cfg.alpha, cfg.beta, cfg.gamma)
    /\ rvec = Rodrigues(rotation_matrix)
    /\ points_2d \in SeqsUpTo(ReducerPoints, MaxPts)
    /\ img = DrawCircles(SourceImg, points_2d)
    /\ img_box = SourceImg
    /\ filtered_points = <<>>
    /\ box = NoBox
    /\ fs = imwrite(InitFiles, results_path, img, TRUE)

SpecReducer == InitReducer /\ [][ReduceToBox]_vars

----------------------------------------------------------------------------
(* The properties *)

Projected == pc \in {"imread", "dots", "imwrite", "imread_box", "box", "imwrite_box", "done"}
Reduced == pc \in {"imwrite_box", "done"}

\* the pixel p is exactly (x, y)
PixelIs(p, x, y) == p.xn = x * p.d /\ p.yn = y * p.d

\* every line of index.txt is blank or an integer, and IndexList is the
\* integers in the order of their lines
IndexListReadable == \A k \in 1..Len(NonBlank(indexLines)) : IntParses(NonBlank(indexLines)[k])
IndexList == ParseIndices(indexLines)

\* C1: when read_selected_points returns for an index list whose entries are
\* all in 0..N-1, N the number of points of the cloud, the array it returns
\* has one row per entry, and row i is the point at offset IndexList[i]: the
\* order of the list is kept and a repeated index repeats its row.
C1_SelectionKeepsOrderAndLength ==
    (/\ pc = "project"
     /\ IndexListReadable
     /\ \A k \in 1..Len(IndexList) : IndexList[k] \in 0..(Len(cloud) - 1))
    => /\ Len(points_3d) = Len(IndexList)
       /\ \A i \in 1..Len(IndexList) : points_3d[i] = cloud[IndexList[i] + 1]

\* a list out of order with a repeated index, against the five-point cloud
C1_Witness ==
    /\ pc = "project"
    /\ cloud = FiveCloud
    /\ indexLines = << <<"2">>, <<"0">>, <<"2">> >>
    /\ points_3d = << <<7, 8, 9>>, <<1, 2, 3>>, <<7, 8, 9>> >>

\* C6, as claimed: an index list with an entry that is no offset 0..N-1 of the
\* cloud makes read_selected_points raise, so the run never reaches the
\* projection and writes neither results.png nor results_box.png.
C6_OutOfRangeIsFatal ==
    (/\ IndexListReadable
     /\ \E k \in 1..Len(IndexList) : IndexList[k] \notin 0..(Len(cloud) - 1))
    => /\ pc \in {"select", "error"}
       /\ fs[results_path] = NoImg
       /\ fs[results_box_path] = NoImg

\* C2, as claimed: the scenario's four points give the pixels (250,250),
\* (300,250), (250,275), (200,200), none is filtered, and the box is
\* (200,200,300,275).
C2_ScenarioAsClaimed ==
    (cfg = ScenarioCfg /\ points_3d = ScenarioCloud)
    => /\ Projected =>
            /\ Len(points_2d) = 4
            /\ PixelIs(points_2d[1], 250, 250)
            /\ PixelIs(points_2d[2], 300, 250)
            /\ PixelIs(points_2d[3], 250, 275)
            /\ PixelIs(points_2d[4], 200, 200)
       /\ Reduced =>
            /\ filtered_points = points_2d
            /\ box = [present |-> TRUE, min_x |-> 200, min_y |-> 200,
                      max_x |-> 300, max_y |-> 275]

\* C2, amended: with fx = fy = 500, cx = cy = 250, angles (0,0,0), no
\* translation and the points (0,0,10), (1,0,10), (0,1,10), (-1,-1,10)
\* selected in that order, the pixels are (250,250), (300,250), (250,300),
\* (200,200), the circles are drawn at them, no point is filtered, and the
\* box is (200,200,300,300).
C2_Scenario ==
    (cfg = ScenarioCfg /\ points_3d = ScenarioCloud)
    => /\ Projected =>
            /\ Len(points_2d) = 4
            /\ PixelIs(points_2d[1], 250, 250)
            /\ PixelIs(points_2d[2], 300, 250)
            /\ PixelIs(points_2d[3], 250, 300)
            /\ PixelIs(points_2d[4], 200, 200)
       /\ (pc \in {"imwrite", "imread_box", "box", "imwrite_box", "done"}) =>
            img.circles = << [x |-> 250, y |-> 250], [x |-> 300, y |-> 250],
                             [x |-> 250, y |-> 300], [x |-> 200, y |-> 200] >>
       /\ Reduced =>
            /\ filtered_points = points_2d
            /\ box = [present |-> TRUE, min_x |-> 200, min_y |-> 200,
                      max_x |-> 300, max_y |-> 300]

\* the scenario has run to its end and written its box
C2_Witness ==
    /\ pc = "done"
    /\ cfg = ScenarioCfg
    /\ points_3d = ScenarioCloud
    /\ fs[results_box_path].rects = <<box>>
    /\ box.present

\* the point p as the rotation of the configuration turns it
Rotated(p) == MatVec(ExtrinsicRotation(cfg.alpha, cfg.beta, cfg.gamma), p)

\* C3: with no translation, a point whose rotated image (X, Y, Z) = R p has
\* Z # 0 projects to exactly (fx X / Z + cx, fy Y / Z + cy), whatever the
\* rotation R; and under the identity a point (0, 0, Z), Z > 0, projects to
\* exactly (cx, cy).
C3_PinholeProjection ==
    Projected =>
        /\ Len(points_2d) = Len(points_3d)
        /\ \A i \in 1..Len(points_3d) :
             LET q == Rotated(points_3d[i])
                 p == points_2d[i]
             IN  /\ q[3] # 0 =>
                      /\ p.d > 0
                      /\ p.xn * q[3] = (cfg.fx * q[1] + cfg.cx * q[3]) * p.d
                      /\ p.yn * q[3] = (cfg.fy * q[2] + cfg.cy * q[3]) * p.d
                 /\ (/\ rotation_matrix = Identity3
                     /\ points_3d[i][1] = 0 /\ points_3d[i][2] = 0 /\ points_3d[i][3] > 0)
                    => PixelIs(p, cfg.cx, cfg.cy)

\* the coded rotation has turned (4, 1, 1) into (-1, -1, 4) and projected it
C3_Witness ==
    /\ pc = "imread"
    /\ cfg.alpha = -90 /\ cfg.beta = 90 /\ cfg.gamma = 0
    /\ cfg.fx = 480
    /\ points_3d = << <<4, 1, 1>> >>
    /\ Rotated(points_3d[1]) = <<-1, -1, 4>>
    /\ points_2d = << [xn |-> 820, yn |-> 222, d |-> 4] >>

PixelDen == CommonDen(points_2d)
PixelXs == Column(points_2d, "x", PixelDen)
PixelYs == Column(points_2d, "y", PixelDen)
Others(k) == (1..Len(points_2d)) \ {k}
Kept(p) == \E i \in 1..Len(filtered_points) : filtered_points[i] = p

\* the y bounds of the box are the least and the greatest y, truncated, over
\* the points the filter kept
YBoundsOfKept ==
    /\ \A i \in 1..Len(filtered_points) :
         LET y == Trunc(filtered_points[i].yn, filtered_points[i].d)
         IN  box.min_y <= y /\ y <= box.max_y
    /\ \E i \in 1..Len(filtered_points) :
         Trunc(filtered_points[i].yn, filtered_points[i].d) = box.min_y
    /\ \E i \in 1..Len(filtered_points) :
         Trunc(filtered_points[i].yn, filtered_points[i].d) = box.max_y

\* point k is far from the others on the x axis only: the others lie within
\* one pixel of each other in x, point k lies ten pixels or more beyond them,
\* and its y is within theirs
FarOnXOnly(k) ==
    /\ Cardinality(Others(k)) >= 2
    /\ \A i \in Others(k), j \in Others(k) : Abs(PixelXs[i] - PixelXs[j]) <= PixelDen
    /\ \A j \in Others(k) : PixelXs[k] - PixelXs[j] >= 10 * PixelDen
    /\ \E j \in Others(k) : PixelYs[j] <= PixelYs[k]
    /\ \E j \in Others(k) : PixelYs[j] >= PixelYs[k]

\* C4, as claimed: a point is kept only if both its z-scores are below 2.0,
\* so a point far from a cluster on the x axis only is excluded and the x
\* bounds of the box are those of the cluster alone.
C4_FarPointExcludedAsClaimed ==
    Reduced =>
        \A k \in 1..Len(points_2d) :
            FarOnXOnly(k) =>
                /\ ~Kept(points_2d[k])
                /\ box.present
                /\ \A j \in Others(k) :
                     LET x == Trunc(points_2d[j].xn, points_2d[j].d)
                     IN  box.min_x <= x /\ x <= box.max_x
                /\ \E j \in Others(k) : Trunc(points_2d[j].xn, points_2d[j].d) = box.min_x
                /\ \E j \in Others(k) : Trunc(points_2d[j].xn, points_2d[j].d) = box.max_x
                /\ YBoundsOfKept

\* point k stands a pixel or more away in x from a cluster of five or more
\* points that share one x
FarFromColumn(k) ==
    /\ Cardinality(Others(k)) >= 5
    /\ \A i \in Others(k), j \in Others(k) : PixelXs[i] = PixelXs[j]
    /\ \A j \in Others(k) : Abs(PixelXs[k] - PixelXs[j]) >= PixelDen

\* C4, amended: the points kept are those whose x z-score and y z-score
\* (|value - mean| / (population std + 1e-6)) are both below 2.0, in their
\* order; so for an input made of five or more points that share one x plus
\* one point a pixel or more away from them in x, that point is excluded,
\* both x bounds of the box are the x of the cluster, and its y bounds are
\* the least and the greatest y over the points kept.
C4_FarPointExcluded ==
    Reduced =>
        /\ LET xs == PixelXs
               ys == PixelYs
               vx == Spread(xs)
               vy == Spread(ys)
               nL == Len(points_2d) * PixelDen
           IN  filtered_points =
                 Compress(points_2d, [i \in 1..Len(points_2d) |->
                     /\ ZScoreBelowThreshold(Deviation(xs, i), vx, nL)
                     /\ ZScoreBelowThreshold(Deviation(ys, i), vy, nL)])
        /\ \A k \in 1..Len(points_2d) :
             FarFromColumn(k) =>
                 /\ ~Kept(points_2d[k])
                 /\ box.present
                 /\ \A j \in Others(k) :
                      /\ box.min_x = Trunc(points_2d[j].xn, points_2d[j].d)
                      /\ box.max_x = Trunc(points_2d[j].xn, points_2d[j].d)
                 /\ YBoundsOfKept

\* five points of the column x = 0, two heights among them, and one at x = 12
C4_Witness ==
    /\ pc = "imwrite_box"
    /\ points_2d = <<Pixel(0, 0), Pixel(0, 7), Pixel(12, 0), Pixel(0, 0), Pixel(0, 7), Pixel(0, 0)>>
    /\ filtered_points = <<Pixel(0, 0), Pixel(0, 7), Pixel(0, 0), Pixel(0, 7), Pixel(0, 0)>>
    /\ box = [present |-> TRUE, min_x |-> 0, min_y |-> 0, max_x |-> 0, max_y |-> 7]

\* the coordinates of one axis all agree
ZeroVariance(s) == \A i \in 1..Len(s), j \in 1..Len(s) : s[i] = s[j]

\* C10, as claimed: the filter keeps at least one point of every non-empty
\* input, so a box is produced with min <= max on both axes; a single point,
\* or any set with zero variance on an axis, is kept in full.
C10_FilterAsClaimed ==
    (Reduced /\ points_2d # <<>>) =>
        /\ filtered_points # <<>>
        /\ box.present
        /\ box.min_x <= box.max_x /\ box.min_y <= box.max_y
        /\ (Len(points_2d) = 1 \/ ZeroVariance(PixelXs) \/ ZeroVariance(PixelYs))
           => filtered_points = points_2d

\* C10, amended: the filter keeps at least one point of every non-empty
\* input, so a box is produced with min <= max on both axes; a single point,
\* or any set with zero variance on both axes, is kept in full.
C10_FilterNeverEmpties ==
    (Reduced /\ points_2d # <<>>) =>
        /\ filtered_points # <<>>
        /\ box.present
        /\ box.min_x <= box.max_x /\ box.min_y <= box.max_y
        /\ (Len(points_2d) = 1 \/ (ZeroVariance(PixelXs) /\ ZeroVariance(PixelYs)))
           => filtered_points = points_2d

\* six points of which the filter dropped some and kept the others
C10_Witness ==
    /\ pc = "imwrite_box"
    /\ Len(points_2d) = 6
    /\ Len(filtered_points) \in 1..5
    /\ box.present
    /\ box.min_x < box.max_x

\* C5, as claimed: a run whose index.txt selects no point (no line, or blank
\* lines only) ends without an error of its own: only a file that cannot be
\* read (index.txt, or image.png, which cv2.imwrite then refuses as None)
\* can end it; the selection and the projection return arrays of no rows, no
\* box is produced, results.png has no circle and results_box.png no
\* rectangle.
C5_EmptyRunCompletes ==
    NonBlank(indexLines) = <<>> =>
        /\ pc = "error" => err \in {"OSError", "imwrite"}
        /\ points_3d = <<>> /\ points_2d = <<>> /\ ~box.present
        /\ fs[results_path].circles = <<>>
        /\ fs[results_box_path].rects = <<>>

\* C7, as claimed: no run finishes normally after a read or a write failed:
\* a finished run has read the image twice and written both of its outputs.
\* It is stated of the runs that selected a point or more.
C7_IOFailuresAreFatal ==
    (pc = "done" /\ points_3d # <<>>) =>
        /\ img.ok /\ img_box.ok
        /\ fs[results_path] = img
        /\ fs[results_box_path] = img_box

\* C9: the dots and the box are drawn on two separate copies of the image:
\* the buffer written to results.png holds the circles of the projected
\* points and no rectangle, the buffer written to results_box.png holds the
\* rectangle of the box, if there is one, and no circle, and image.png holds
\* the scene as it did.
C9_OutputsAreIsolated ==
    /\ fs[img_path] = SourceImg
    /\ img.rects = <<>>
    /\ img_box.circles = <<>>
    /\ fs[results_path] \in {NoImg, [SourceImg EXCEPT !.circles =
                                        [i \in 1..Len(points_2d) |-> Circle(points_2d[i])]]}
    /\ fs[results_box_path] \in {NoImg, SourceImg, [SourceImg EXCEPT !.rects = <<box>>]}
    /\ (fs[results_box_path] # NoImg /\ box.present) => fs[results_box_path].rects = <<box>>

\* a finished run that wrote three circles to one file and the box to the other
C9_Witness ==
    /\ pc = "done"
    /\ Len(fs[results_path].circles) = 3
    /\ fs[results_box_path].rects = <<box>>
    /\ box.present

=============================================================================
